---- MODULE Spec2Model ----
(***************************************************************************)
(* A model of flip/data_utils.py: the NCF_Dataset family (negative         *)
(* sampling, label flipping, the four grouped views) and the greedy        *)
(* cluster assignment of NCF_NeighborWise_Dataset / CDAE_Neighbor_Data.    *)
(*                                                                         *)
(* Arrays are functions over 0..n-1, as numpy indexes them.  A feature row *)
(* is a pair <<user, item>>.  The arrays a masked read returns are         *)
(* sequences in ascending row order.                                       *)
(***************************************************************************)
EXTENDS Integers, Sequences, FiniteSets

\* ------------------------------------------------------------------ bounds
\* user_num + item_num of a dataset with more than one row
MaxUsersPlusItems == 3
\* len(features)
MaxPairs == 2
\* num_ng
MaxNg == 2
\* how many indices one flip_labels call names
MaxFlip == 2
\* group_size
MaxGroupSize == 3
\* user_num (item_num) of the objects built to exercise assign_cluster_ids
MaxEntities == 5

\* -------------------------------------------------------- program constants
\* the value np.full gives every entity before it is assigned
Unassigned == -1
\* is_training == 2 is the evaluation mode every method tests for
EvalMode == 2

VARIABLES
    cls,                \* the class of the object
    user_num, item_num, features, true_labels, train_mat,
    is_training, num_ng,
    train_labels,
    filled,             \* "unset" | "alias" | "copy": what the *_fill fields hold
    features_fill, labels_fill, true_labels_fill, train_labels_fill,
    group_size, neighbor_type,
    cluster_num, clusters_per_sample, cluster_id, sample,
    cluster_ids, cluster_ids_fill,
    rank0_is_self,      \* every ranking argsort returned so far had the entity itself first
    flip_parity,        \* per row, the parity of the flip_labels calls that named it
    pc,                 \* where the object is: in its constructor, ready, or failed
    ret                 \* the last call and how it ended

vars == << cls, user_num, item_num, features, true_labels, train_mat,
           is_training, num_ng, train_labels, filled, features_fill,
           labels_fill, true_labels_fill, train_labels_fill, group_size,
           neighbor_type, cluster_num, clusters_per_sample, cluster_id,
           sample, cluster_ids, cluster_ids_fill, rank0_is_self,
           flip_parity, pc, ret >>

inputVars == << cls, user_num, item_num, features, true_labels, train_mat,
                is_training, num_ng, group_size, neighbor_type >>

fillVars == << filled, features_fill, labels_fill, true_labels_fill,
               train_labels_fill, cluster_ids_fill >>

clusterVars == << cluster_num, clusters_per_sample, cluster_id, sample,
                  cluster_ids, rank0_is_self >>

\* ----------------------------------------------------------- array helpers
Len0(a) == Cardinality(DOMAIN a)

Range0(n) == 0 .. (n - 1)

Full(n, v) == [i \in Range0(n) |-> v]

Concatenate(a, b) ==
    [i \in Range0(Len0(a) + Len0(b)) |->
        IF i < Len0(a) THEN a[i] ELSE b[i - Len0(a)]]

User(row) == row[1]

Item(row) == row[2]

Min(S) == CHOOSE x \in S : \A y \in S : x <= y

RECURSIVE Ascending(_)
Ascending(S) ==
    IF S = {} THEN << >>
    ELSE << Min(S) >> \o Ascending(S \ {Min(S)})

\* a[mask]: the values at those positions
Take(a, idx) == [k \in 1 .. Len(idx) |-> a[idx[k]]]

RECURSIVE Permutations0(_)
Permutations0(S) ==
    IF S = {} THEN {<< >>}
    ELSE UNION {{<< x >> \o p : p \in Permutations0(S \ {x})} : x \in S}

\* what np.argsort can return for n scores: some order of 0..n-1, position 0 first
Rankings(n) == {[i \in Range0(n) |-> p[i + 1]] : p \in Permutations0(Range0(n))}

\* ------------------------------------------------------ cluster assignment
UniqueSamples == IF neighbor_type = "user" THEN user_num ELSE item_num

\* mutant: the remainder term of cluster_num forgotten
ClusterNumFloor(n, g) == n \div g

ClusterNum(n, g) == (n \div g) + (IF n % g # 0 THEN 1 ELSE 0)

\* the walk over similar_samples[1:]: pos is the position in the ranking,
\* size the members the cluster holds so far
RECURSIVE ChainNeighbors(_, _, _, _, _, _)
ChainNeighbors(cps, similar_samples, pos, cid, size, g) ==
    IF pos >= Len0(similar_samples) THEN cps
    ELSE IF cps[similar_samples[pos]] = Unassigned
         THEN IF size + 1 >= g
              THEN [cps EXCEPT ![similar_samples[pos]] = cid]
              ELSE ChainNeighbors([cps EXCEPT ![similar_samples[pos]] = cid],
                                  similar_samples, pos + 1, cid, size + 1, g)
         ELSE ChainNeighbors(cps, similar_samples, pos + 1, cid, size, g)

\* mutant: the member count starts at 0, the seed itself not counted
OpenClusterSeedUncounted(cps, s, similar_samples, cid, g) ==
    LET seeded == [cps EXCEPT ![s] = cid]
    IN  IF 1 < g
        THEN ChainNeighbors(seeded, similar_samples, 1, cid, 0, g)
        ELSE seeded

\* one pass of the loop body that opens a cluster at s
OpenCluster(cps, s, similar_samples, cid, g) ==
    LET seeded == [cps EXCEPT ![s] = cid]
    IN  IF 1 < g
        THEN ChainNeighbors(seeded, similar_samples, 1, cid, 1, g)
        ELSE seeded

\* mutant: no edge-case pass at all
RepairSkipped(cps, cid, cnum) == cps

\* the "edge case" pass after the loop
Repair(cps, cid, cnum) ==
    IF cid < cnum
    THEN [s \in DOMAIN cps |-> IF cps[s] = Unassigned THEN cid ELSE cps[s]]
    ELSE cps

\* np.unique(clusters_per_sample).shape[0]
UniqueCount(cps) == Cardinality({cps[s] : s \in DOMAIN cps})

\* clusters_per_sample[features[:, 0]] or clusters_per_sample[features[:, 1]]
Gather(cps, feats, ntype) ==
    [r \in DOMAIN feats |->
        LET e == IF ntype = "user" THEN User(feats[r]) ELSE Item(feats[r])
        IN  cps[e]]

\* for sample in range(unique_samples): the range is exhausted
AssignLoopEnd ==
    /\ pc = "assign_loop"
    /\ sample = UniqueSamples
    /\ pc' = "assign_done"
    /\ UNCHANGED << inputVars, train_labels, fillVars, clusterVars,
                    flip_parity, ret >>

\* if cluster_id == unique_samples // group_size: break
AssignBreak ==
    /\ pc = "assign_loop"
    /\ sample < UniqueSamples
    /\ cluster_id = UniqueSamples \div group_size
    /\ pc' = "assign_done"
    /\ UNCHANGED << inputVars, train_labels, fillVars, clusterVars,
                    flip_parity, ret >>

\* if clusters_per_sample[sample] != -1: continue
AssignSkip ==
    /\ pc = "assign_loop"
    /\ sample < UniqueSamples
    /\ cluster_id # UniqueSamples \div group_size
    /\ clusters_per_sample[sample] # Unassigned
    /\ sample' = sample + 1
    /\ UNCHANGED << inputVars, train_labels, fillVars, cluster_num,
                    clusters_per_sample, cluster_id, cluster_ids,
                    rank0_is_self, flip_parity, pc, ret >>

\* the loop body: a new cluster seeded at sample and filled from its ranking
AssignCluster ==
    /\ pc = "assign_loop"
    /\ sample < UniqueSamples
    /\ cluster_id # UniqueSamples \div group_size
    /\ clusters_per_sample[sample] = Unassigned
    /\ \E similar_samples \in Rankings(UniqueSamples) :
          /\ clusters_per_sample' =
                OpenCluster(clusters_per_sample, sample, similar_samples,
                            cluster_id, group_size)
          /\ rank0_is_self' = (rank0_is_self /\ similar_samples[0] = sample)
    /\ cluster_id' = cluster_id + 1
    /\ sample' = sample + 1
    /\ UNCHANGED << inputVars, train_labels, fillVars, cluster_num,
                    cluster_ids, flip_parity, pc, ret >>

\* the repair pass and the per-row cluster ids, to the end of assign_cluster_ids
AssignFinish ==
    /\ pc = "assign_done"
    /\ clusters_per_sample' = Repair(clusters_per_sample, cluster_id, cluster_num)
    /\ cluster_ids' = Gather(clusters_per_sample', features, neighbor_type)
    /\ pc' = "assert"
    /\ UNCHANGED << inputVars, train_labels, fillVars, cluster_num,
                    cluster_id, sample, rank0_is_self, flip_parity, ret >>

\* assert self.cluster_num == np.unique(self.clusters_per_sample).shape[0]
ConstructorAssert ==
    /\ pc = "assert"
    /\ IF cluster_num = UniqueCount(clusters_per_sample)
       THEN /\ pc' = "ready"
            /\ ret' = [op |-> "__init__", outcome |-> "ok", value |-> << >>]
       ELSE /\ pc' = "failed"
            /\ ret' = [op |-> "__init__", outcome |-> "AssertionError", value |-> << >>]
    /\ UNCHANGED << inputVars, train_labels, fillVars, clusterVars,
                    flip_parity >>

AssignClusterIds ==
    \/ AssignLoopEnd
    \/ AssignBreak
    \/ AssignSkip
    \/ AssignCluster
    \/ AssignFinish
    \/ ConstructorAssert

\* ------------------------------------------------------------ construction
\* NCF_Dataset.__init__ on its arguments; a NeighborWise object goes on into
\* assign_cluster_ids, at the line that sets cluster_id = 0
Constructed(c, un, inn, f, tl, tm, it, ng, g, nt) ==
    /\ cls = c
    /\ user_num = un
    /\ item_num = inn
    /\ features = f
    /\ true_labels = tl
    /\ train_mat = tm
    /\ is_training = it
    /\ num_ng = ng
    /\ train_labels = Full(Len0(f), 1)
    /\ filled = "unset"
    /\ features_fill = << >>
    /\ labels_fill = << >>
    /\ true_labels_fill = << >>
    /\ train_labels_fill = << >>
    /\ cluster_ids_fill = << >>
    /\ group_size = g
    /\ neighbor_type = nt
    /\ cluster_num = IF c = "NCF_NeighborWise_Dataset"
                     THEN ClusterNum(IF nt = "user" THEN un ELSE inn, g)
                     ELSE 0
    /\ clusters_per_sample = IF c = "NCF_NeighborWise_Dataset"
                             THEN Full(IF nt = "user" THEN un ELSE inn, Unassigned)
                             ELSE << >>
    /\ cluster_id = 0
    /\ sample = 0
    /\ cluster_ids = << >>
    /\ rank0_is_self = TRUE
    /\ flip_parity = Full(Len0(f), 0)
    /\ pc = IF c = "NCF_NeighborWise_Dataset" THEN "assign_loop" ELSE "ready"
    /\ ret = [op |-> "__init__", outcome |-> "ok", value |-> << >>]

\* a one-row dataset over n entities: the cluster assignment alone
InitCluster ==
    \E n \in 1 .. MaxEntities, g \in 1 .. MaxGroupSize, nt \in {"user", "item"} :
        Constructed("NCF_NeighborWise_Dataset",
                    IF nt = "user" THEN n ELSE 1,
                    IF nt = "item" THEN n ELSE 1,
                    Full(1, << 0, 0 >>), Full(1, 1), {<< 0, 0 >>},
                    0, 0, g, nt)

NextCluster == AssignClusterIds

SpecCluster == InitCluster /\ [][NextCluster]_vars

\* ------------------------------------------------------------ NCF_Dataset
Classes == {"NCF_Dataset", "NCF_UserWise_Dataset", "NCF_ItemWise_Dataset",
            "NCF_NeighborWise_Dataset"}

\* self.labels: np.ones(len(features)), never written after construction
labels == Full(Len0(features), 1)

Result(op, outcome, value) == [op |-> op, outcome |-> outcome, value |-> value]

NoValue == << >>

\* mutant: the two loops swapped, each positive row's negatives side by side
NegativeSamplesInterleaved ==
    LET P == Len0(features)
    IN  {[n \in Range0(num_ng * P) |-> << User(features[n \div num_ng]), js[n] >>] :
            js \in {f \in [Range0(num_ng * P) -> Range0(item_num)] :
                       \A n \in Range0(num_ng * P) :
                           << User(features[n \div num_ng]), f[n] >> \notin train_mat}}

\* the negative rows one ng_sample call can draw: row k*P + i pairs the user
\* of positive row i with an item the rejection loop lets through
NegativeSamples ==
    LET P == Len0(features)
    IN  {[n \in Range0(num_ng * P) |-> << User(features[n % P]), js[n] >>] :
            js \in {f \in [Range0(num_ng * P) -> Range0(item_num)] :
                       \A n \in Range0(num_ng * P) :
                           << User(features[n % P]), f[n] >> \notin train_mat}}

\* assert self.is_training != 2, "Sampling only for training mode"
NgSampleAssert ==
    /\ pc = "ready"
    /\ is_training = EvalMode
    /\ ret' = Result("ng_sample", "AssertionError", NoValue)
    /\ UNCHANGED << inputVars, train_labels, fillVars, clusterVars,
                    flip_parity, pc >>

\* the per-row cluster ids NCF_NeighborWise_Dataset.ng_sample adds
ClusterIdsFill(ff) ==
    IF cls = "NCF_NeighborWise_Dataset"
    THEN Gather(clusters_per_sample, ff, neighbor_type)
    ELSE << >>

\* num_ng == 0: the *_fill fields are the original arrays themselves
NgSampleNone ==
    /\ pc = "ready"
    /\ is_training # EvalMode
    /\ num_ng = 0
    /\ filled' = "alias"
    /\ features_fill' = features
    /\ labels_fill' = labels
    /\ true_labels_fill' = true_labels
    /\ train_labels_fill' = train_labels
    /\ cluster_ids_fill' = ClusterIdsFill(features_fill')
    /\ ret' = Result("ng_sample", "ok", NoValue)
    /\ UNCHANGED << inputVars, train_labels, clusterVars, flip_parity, pc >>

\* mutant: a single pass of negatives whatever num_ng is
FeaturesFillOnePass(negative_samples) ==
    Concatenate(features,
                [n \in Range0(Len0(features)) |-> negative_samples[n]])

\* np.concatenate((self.features, self.negative_samples))
FeaturesFill(negative_samples) == Concatenate(features, negative_samples)

LabelsFill(negative_samples) ==
    Concatenate(labels, Full(Len0(negative_samples), 0))

TrueLabelsFill(negative_samples) ==
    Concatenate(true_labels, Full(Len0(negative_samples), 0))

\* mutant: the epoch's training labels rebuilt from self.labels, losing the flips
TrainLabelsFillFromLabels(negative_samples) ==
    Concatenate(labels, Full(Len0(negative_samples), 0))

TrainLabelsFill(negative_samples) ==
    Concatenate(train_labels, Full(Len0(negative_samples), 0))

\* num_ng >= 1: fresh negatives, concatenated after the positive rows
NgSampleDraw ==
    /\ pc = "ready"
    /\ is_training # EvalMode
    /\ num_ng # 0
    /\ \E negative_samples \in NegativeSamples :
          /\ features_fill' = FeaturesFill(negative_samples)
          /\ labels_fill' = LabelsFill(negative_samples)
          /\ true_labels_fill' = TrueLabelsFill(negative_samples)
          /\ train_labels_fill' = TrainLabelsFill(negative_samples)
    /\ filled' = "copy"
    /\ cluster_ids_fill' = ClusterIdsFill(features_fill')
    /\ ret' = Result("ng_sample", "ok", NoValue)
    /\ UNCHANGED << inputVars, train_labels, clusterVars, flip_parity, pc >>

\* a user of some positive row has interacted with every item: the rejection
\* loop never ends and the call never returns
NgSampleLoopsForever ==
    /\ pc = "ready"
    /\ is_training # EvalMode
    /\ num_ng # 0
    /\ NegativeSamples = {}
    /\ pc' = "ng_sample_loop"
    /\ ret' = Result("ng_sample", "running", NoValue)
    /\ UNCHANGED << inputVars, train_labels, fillVars, clusterVars,
                    flip_parity >>

NgSample ==
    \/ NgSampleAssert
    \/ NgSampleNone
    \/ NgSampleDraw
    \/ NgSampleLoopsForever

\* get_state: the counts it prints
GetStateCounts ==
    LET rows == DOMAIN train_labels
        N(S) == Cardinality(S)
    IN  [pos_train |-> N({i \in rows : train_labels[i] = 1}),
         neg_train |-> N({i \in rows : train_labels[i] = 0}),
         true_pos  |-> N({i \in rows : train_labels[i] = 1 /\ true_labels[i] = 1}),
         true_neg  |-> N({i \in rows : train_labels[i] = 0 /\ true_labels[i] = 0}),
         false_pos |-> N({i \in rows : train_labels[i] = 1 /\ true_labels[i] = 0}),
         false_neg |-> N({i \in rows : train_labels[i] = 0 /\ true_labels[i] = 1})]

GetState ==
    /\ pc = "ready"
    /\ ret' = Result("get_state", "ok", GetStateCounts)
    /\ UNCHANGED << inputVars, train_labels, fillVars, clusterVars,
                    flip_parity, pc >>

\* indices[indices < len(self.train_labels)]
ValidIndices(indices) == {idx \in indices : idx < Len0(train_labels)}

\* mutant: the flip writes 0 instead of toggling
FlippedToZero(tl, valid_indices) ==
    [i \in DOMAIN tl |-> IF i \in valid_indices THEN 0 ELSE tl[i]]

\* self.train_labels[valid_indices] = 1 - self.train_labels[valid_indices]
Flipped(tl, valid_indices) ==
    [i \in DOMAIN tl |-> IF i \in valid_indices THEN 1 - tl[i] ELSE tl[i]]

\* mutant: the flip also written into ng_sample's copy
FillAfterFlipWrittenThrough(new_train_labels) ==
    [r \in DOMAIN train_labels_fill |->
        IF r \in DOMAIN new_train_labels THEN new_train_labels[r]
        ELSE train_labels_fill[r]]

\* train_labels_fill after a flip: with num_ng == 0 it is the very array the
\* flip wrote, otherwise ng_sample's copy, which the flip does not touch
FillAfterFlip(new_train_labels) ==
    IF filled = "alias" THEN new_train_labels ELSE train_labels_fill

\* mutant: no assertion, the flip goes through when testing
FlipLabelsUnguarded(indices) ==
    /\ pc = "ready"
    /\ is_training = EvalMode
    /\ train_labels' = Flipped(train_labels, ValidIndices(indices))
    /\ ret' = Result("flip_labels", "ok", NoValue)
    /\ UNCHANGED << inputVars, fillVars, clusterVars, flip_parity, pc >>

\* assert self.is_training != 2, "no flipping when testing"
FlipLabelsAssert(indices) ==
    /\ pc = "ready"
    /\ is_training = EvalMode
    /\ ret' = Result("flip_labels", "AssertionError", NoValue)
    /\ UNCHANGED << inputVars, train_labels, fillVars, clusterVars,
                    flip_parity, pc >>

\* the flip itself; with num_ng == 0 train_labels_fill is the same array
FlipLabelsToggle(indices) ==
    /\ pc = "ready"
    /\ is_training # EvalMode
    /\ train_labels' = Flipped(train_labels, ValidIndices(indices))
    /\ ret' = Result("flip_labels", "ok", NoValue)
    /\ train_labels_fill' = FillAfterFlip(train_labels')
    /\ flip_parity' = [i \in DOMAIN flip_parity |->
                          IF i \in indices THEN 1 - flip_parity[i]
                          ELSE flip_parity[i]]
    /\ UNCHANGED << inputVars, filled, features_fill, labels_fill,
                    true_labels_fill, cluster_ids_fill, clusterVars, pc >>

\* __len__ of the pointwise view, which is also the augmented length
AugmentedLen == Len0(features) * (num_ng + 1)

\* the index sets a caller passes: rows of the augmented set and one beyond
FlipIndices == {S \in SUBSET (0 .. AugmentedLen) : Cardinality(S) <= MaxFlip}

FlipLabels ==
    \E indices \in FlipIndices :
        \/ FlipLabelsAssert(indices)
        \/ FlipLabelsToggle(indices)

\* mutant: the item-wise class left with the user-wise __len__
DatasetLenCopied ==
    CASE cls = "NCF_Dataset" -> AugmentedLen
      [] cls = "NCF_UserWise_Dataset" -> user_num
      [] cls = "NCF_ItemWise_Dataset" -> user_num
      [] cls = "NCF_NeighborWise_Dataset" -> cluster_num

\* __len__ of each class
DatasetLen ==
    CASE cls = "NCF_Dataset" -> AugmentedLen
      [] cls = "NCF_UserWise_Dataset" -> user_num
      [] cls = "NCF_ItemWise_Dataset" -> item_num
      [] cls = "NCF_NeighborWise_Dataset" -> cluster_num

\* the rows a grouped __getitem__(g) selects from the arrays it reads
GroupRows(g, feats, cids) ==
    CASE cls = "NCF_Dataset" -> << g >>
      [] cls = "NCF_UserWise_Dataset" ->
            Ascending({r \in DOMAIN feats : User(feats[r]) = g})
      [] cls = "NCF_ItemWise_Dataset" ->
            Ascending({r \in DOMAIN feats : Item(feats[r]) = g})
      [] cls = "NCF_NeighborWise_Dataset" ->
            Ascending({r \in DOMAIN cids : cids[r] = g})

\* what __getitem__(g) returns in training mode from the *_fill arrays: scalars
\* for the pointwise class, masked arrays for the grouped ones
GetItemValue(g) ==
    LET idx == GroupRows(g, features_fill, cluster_ids_fill)
    IN  IF cls = "NCF_Dataset"
        THEN [user |-> User(features_fill[g]), item |-> Item(features_fill[g]),
              label |-> labels_fill[g], train_label |-> train_labels_fill[g],
              true_label |-> true_labels_fill[g], idx |-> g]
        ELSE [user |-> [k \in 1 .. Len(idx) |-> User(features_fill[idx[k]])],
              item |-> [k \in 1 .. Len(idx) |-> Item(features_fill[idx[k]])],
              label |-> Take(labels_fill, idx),
              train_label |-> Take(train_labels_fill, idx),
              true_label |-> Take(true_labels_fill, idx),
              idx |-> idx]

\* evaluation mode reads self.features_ps, a field nothing ever sets
GetItemEval(g) ==
    /\ pc = "ready"
    /\ is_training = EvalMode
    /\ ret' = Result("__getitem__", "AttributeError", "features_ps")
    /\ UNCHANGED << inputVars, train_labels, fillVars, clusterVars,
                    flip_parity, pc >>

\* training mode before the first ng_sample: features_fill does not exist yet
GetItemUnfilled(g) ==
    /\ pc = "ready"
    /\ is_training # EvalMode
    /\ filled = "unset"
    /\ ret' = Result("__getitem__", "AttributeError", "features_fill")
    /\ UNCHANGED << inputVars, train_labels, fillVars, clusterVars,
                    flip_parity, pc >>

GetItemTrain(g) ==
    /\ pc = "ready"
    /\ is_training # EvalMode
    /\ filled # "unset"
    /\ ret' = Result("__getitem__", "ok", GetItemValue(g))
    /\ UNCHANGED << inputVars, train_labels, fillVars, clusterVars,
                    flip_parity, pc >>

GetItem ==
    \E g \in Range0(DatasetLen) :
        \/ GetItemEval(g)
        \/ GetItemUnfilled(g)
        \/ GetItemTrain(g)

\* ------------------------------------------------------------ the datasets
\* is_training: the default 0 and the evaluation mode; the methods only ever
\* test is_training != 2, so 1 behaves as 0 does
Modes == {0, EvalMode}

\* a dataset as load_data hands it over: at least one row, every user and
\* item index inside user_num and item_num.  A NeighborWise dataset takes a
\* group_size up to its entity count here; InitCluster adds the larger ones.
InitDataset ==
    \E c \in Classes, un \in 1 .. MaxUsersPlusItems, inn \in 1 .. MaxUsersPlusItems,
       P \in 1 .. MaxPairs, it \in Modes, ng \in 0 .. MaxNg :
    \E f \in [Range0(P) -> Range0(un) \X Range0(inn)],
       tl \in [Range0(P) -> {0, 1}],
       tm \in SUBSET (Range0(un) \X Range0(inn)) :
        /\ un + inn <= MaxUsersPlusItems
        /\ IF c = "NCF_NeighborWise_Dataset"
           THEN \E nt \in {"user", "item"} :
                   \E g \in 1 .. (IF nt = "user" THEN un ELSE inn) :
                       Constructed(c, un, inn, f, tl, tm, it, ng, g, nt)
           ELSE Constructed(c, un, inn, f, tl, tm, it, ng, 0, "none")

Init == InitDataset \/ InitCluster

Next ==
    \/ AssignClusterIds
    \/ NgSample
    \/ FlipLabels
    \/ GetState
    \/ GetItem

Spec == Init /\ [][Next]_vars

\* ================================================================= claims
\* assign_cluster_ids has returned (the constructor's assertion may have run)
Assigned ==
    cls = "NCF_NeighborWise_Dataset" /\ pc \in {"assert", "ready", "failed"}

\* C1: with the entity itself at rank 0 of every ranking, the distinct cluster
\* ids in use after assign_cluster_ids number cluster_num = ceil(n / group_size)
\* and the constructor's assertion does not fail.
C1_DistinctIdsEqualClusterNum ==
    (Assigned /\ rank0_is_self) =>
        /\ cluster_num = ClusterNum(UniqueSamples, group_size)
        /\ UniqueCount(clusters_per_sample) = cluster_num
        /\ pc # "failed"

C1_Witness ==
    /\ pc = "ready"
    /\ rank0_is_self
    /\ UniqueSamples = 5
    /\ group_size = 2
    /\ cluster_id = 2
    /\ UniqueCount(clusters_per_sample) = 3

\* C2: with the entity itself at rank 0 of every ranking, after
\* assign_cluster_ids every entity in [0, n) has a cluster id in
\* [0, cluster_num): none keeps the sentinel -1, none is >= cluster_num.
C2_EveryEntityInRange ==
    (Assigned /\ rank0_is_self) =>
        /\ DOMAIN clusters_per_sample = Range0(UniqueSamples)
        /\ \A s \in Range0(UniqueSamples) :
              clusters_per_sample[s] \in Range0(cluster_num)

C2_Witness ==
    /\ pc = "assert"
    /\ rank0_is_self
    /\ UniqueSamples = 4
    /\ group_size = 3
    /\ cluster_id = cluster_num - 1
    /\ \E s \in Range0(UniqueSamples) : clusters_per_sample[s] = cluster_num - 1

\* the rows one __getitem__ result names, with the training label it gives each
ReturnedRows(v) ==
    IF cls = "NCF_Dataset"
    THEN << [idx |-> v.idx, train_label |-> v.train_label] >>
    ELSE [k \in 1 .. Len(v.idx) |->
             [idx |-> v.idx[k], train_label |-> v.train_label[k]]]

ReturnedIdx(g) ==
    LET rows == ReturnedRows(GetItemValue(g))
    IN  [k \in 1 .. Len(rows) |-> rows[k].idx]

Sampled == pc = "ready" /\ is_training # EvalMode /\ filled # "unset"

\* C3: in training mode after ng_sample, the row indices __getitem__(g)
\* returns for g in [0, __len__()) partition [0, len(features) * (num_ng + 1)):
\* every row is in exactly one group, once.
C3_GroupsPartitionRows ==
    Sampled =>
        LET idx == [g \in Range0(DatasetLen) |-> ReturnedIdx(g)]
        IN  /\ \A r \in Range0(AugmentedLen) :
                  Cardinality({g \in DOMAIN idx :
                                  \E k \in DOMAIN idx[g] : idx[g][k] = r}) = 1
            /\ \A g \in DOMAIN idx :
                  /\ \A k \in DOMAIN idx[g] : idx[g][k] \in Range0(AugmentedLen)
                  /\ \A j, k \in DOMAIN idx[g] : idx[g][j] = idx[g][k] => j = k

C3_Witness ==
    /\ Sampled
    /\ cls = "NCF_NeighborWise_Dataset"
    /\ filled = "copy"
    /\ cluster_num = 2
    /\ Len(ReturnedIdx(0)) >= 1
    /\ Len(ReturnedIdx(1)) >= 2
    /\ ret.op = "__getitem__"
    /\ ret.outcome = "ok"

\* the training label of a row of the augmented set: a positive row's is in
\* train_labels, a negative row's only in train_labels_fill
TrainingLabel(idx) ==
    IF idx < Len0(train_labels) THEN train_labels[idx] ELSE train_labels_fill[idx]

\* C4 as claimed: flip toggles the training label of every given index below
\* the augmented length, the sampled negative rows included.
C4_FlipTogglesAugmentedRows ==
    [][(filled # "unset" /\ ret'.op = "flip_labels") =>
       \A indices \in FlipIndices :
          FlipLabelsToggle(indices) =>
              \A idx \in indices :
                  idx < AugmentedLen => TrainingLabel(idx)' = 1 - TrainingLabel(idx)]_vars

\* C4, amended: a flip toggles train_labels[idx] for every given index below
\* len(features) (the rows whose flip_parity the call changes), leaves every
\* other positive row as it was, and ignores every index at or beyond
\* len(features): whatever the call named, a sampled negative row keeps its
\* label.
C4_FlipTogglesPositiveRows ==
    [][(ret'.op = "flip_labels" /\ ret'.outcome = "ok") =>
          /\ \A i \in Range0(Len0(features)) :
                train_labels'[i] =
                    IF flip_parity'[i] # flip_parity[i]
                    THEN 1 - train_labels[i] ELSE train_labels[i]
          /\ filled = "copy" =>
                \A r \in Range0(AugmentedLen) \ Range0(Len0(features)) :
                    train_labels_fill'[r] = train_labels_fill[r]]_vars

C4_Witness ==
    /\ ret.op = "flip_labels"
    /\ ret.outcome = "ok"
    /\ filled = "copy"
    /\ Len0(features) = 2
    /\ train_labels[0] = 0
    /\ train_labels[1] = 1
    /\ train_labels_fill[2] = 0

\* C5: after ng_sample with num_ng >= 1, row P + k*P + i pairs the user of
\* positive row i with an item in [0, item_num) the user has not interacted
\* with, and its label, training label and true label are 0.
C5_NegativeRows ==
    filled = "copy" =>
        \A k \in Range0(num_ng), i \in Range0(Len0(features)) :
            LET r == Len0(features) + k * Len0(features) + i
            IN  /\ r \in DOMAIN features_fill
                /\ User(features_fill[r]) = User(features[i])
                /\ Item(features_fill[r]) \in Range0(item_num)
                /\ features_fill[r] \notin train_mat
                /\ labels_fill[r] = 0
                /\ train_labels_fill[r] = 0
                /\ true_labels_fill[r] = 0

C5_Witness ==
    /\ filled = "copy"
    /\ ret.op = "ng_sample"
    /\ num_ng = 2
    /\ Len0(features) = 2
    /\ User(features[0]) # User(features[1])
    /\ train_labels[1] = 0

\* C6: after every ng_sample, in any sequence of ng_sample and flip calls, the
\* four augmented arrays have length len(features) * (num_ng + 1), the
\* pointwise __len__(); with num_ng == 0 they are the original arrays.
C6_AugmentedLength ==
    filled # "unset" =>
        /\ DOMAIN features_fill = Range0(AugmentedLen)
        /\ DOMAIN labels_fill = Range0(AugmentedLen)
        /\ DOMAIN train_labels_fill = Range0(AugmentedLen)
        /\ DOMAIN true_labels_fill = Range0(AugmentedLen)
        /\ num_ng = 0 =>
              /\ features_fill = features
              /\ labels_fill = labels
              /\ train_labels_fill = train_labels
              /\ true_labels_fill = true_labels

C6_Witness ==
    /\ filled = "copy"
    /\ ret.op = "ng_sample"
    /\ num_ng = 2
    /\ Len0(features) = 2
    /\ Len0(features_fill) = 6
    /\ train_labels[0] = 0

\* C7 as claimed: in evaluation mode flip_labels and get_state both end in an
\* error and leave the training labels alone.
C7_EvalFlipAndStateFail ==
    (is_training = EvalMode /\ ret.op \in {"flip_labels", "get_state"}) =>
        /\ ret.outcome # "ok"
        /\ train_labels = Full(Len0(features), 1)

\* C7, amended: in evaluation mode flip_labels ends in an AssertionError;
\* get_state, which asserts nothing, returns its counts; neither changes the
\* training labels.
C7_EvalFlipFailsStateReturns ==
    is_training = EvalMode =>
        /\ ret.op = "flip_labels" => ret.outcome = "AssertionError"
        /\ ret.op = "get_state" =>
              /\ ret.outcome = "ok"
              /\ ret.value.pos_train = Len0(features)
              /\ ret.value.neg_train = 0
        /\ train_labels = Full(Len0(features), 1)

C7_Witness ==
    /\ is_training = EvalMode
    /\ pc = "ready"
    /\ ret.op = "flip_labels"
    /\ ret.outcome = "AssertionError"
    /\ Len0(features) = 2

\* C8: right after each ng_sample a positive row's training label is 1 toggled
\* once per earlier flip call that named the row, a negative row's is 0, and
\* the positive rows' true labels are those given at construction.
C8_LabelsPersistAcrossSampling ==
    (ret.op = "ng_sample" /\ ret.outcome = "ok") =>
        /\ \A i \in Range0(Len0(features)) :
              /\ train_labels_fill[i] = (IF flip_parity[i] = 1 THEN 0 ELSE 1)
              /\ true_labels_fill[i] = true_labels[i]
        /\ \A r \in Range0(AugmentedLen) \ Range0(Len0(features)) :
              train_labels_fill[r] = 0

C8_Witness ==
    /\ ret.op = "ng_sample"
    /\ ret.outcome = "ok"
    /\ filled = "copy"
    /\ Len0(features) = 2
    /\ flip_parity[0] = 1
    /\ flip_parity[1] = 0
    /\ train_labels_fill[0] = 0
    /\ true_labels[0] = 0
    /\ true_labels[1] = 1

\* C9 as claimed: with num_ng >= 1, the training label __getitem__ returns for
\* a row is the row's current training label, flips since the last ng_sample
\* included.
C9_ReadsSeeFlips ==
    (filled = "copy" /\ ret.op = "__getitem__" /\ ret.outcome = "ok") =>
        \A k \in DOMAIN ReturnedRows(ret.value) :
            LET row == ReturnedRows(ret.value)[k]
            IN  row.train_label =
                    (IF row.idx < Len0(train_labels) THEN train_labels[row.idx] ELSE 0)

\* C9, amended: with num_ng >= 1, __getitem__ returns the training labels as
\* the last ng_sample copied them: right after an ng_sample they are the
\* current ones, and a flip_labels call changes none of the arrays
\* __getitem__ reads, so nothing it returns, until the next ng_sample.
C9_ReadsSeeLastSample ==
    [][(filled' = "copy" /\ pc' = "ready") =>
          /\ (ret'.op = "ng_sample" /\ ret'.outcome = "ok") =>
                \A r \in Range0(AugmentedLen) :
                    train_labels_fill'[r] =
                        (IF r < Len0(train_labels') THEN train_labels'[r] ELSE 0)
          /\ (ret'.op = "flip_labels" /\ filled = "copy") =>
                UNCHANGED << features_fill, labels_fill, train_labels_fill,
                             true_labels_fill, cluster_ids_fill >>]_vars

C9_Witness ==
    /\ filled = "copy"
    /\ ret.op = "__getitem__"
    /\ ret.outcome = "ok"
    /\ train_labels[0] = 0
    /\ \E k \in DOMAIN ReturnedRows(ret.value) :
          /\ ReturnedRows(ret.value)[k].idx = 0
          /\ ReturnedRows(ret.value)[k].train_label = 1

\* C10 as claimed: in evaluation mode __getitem__ of every view succeeds and
\* never fails on a field nothing has set.
C10_EvalGetItemSucceeds ==
    (is_training = EvalMode /\ ret.op = "__getitem__") => ret.outcome = "ok"

\* C11 as claimed: for every ranking that is a full permutation, rank 0 the
\* entity itself or not, the pass after the main loop gives every entity still
\* unassigned the cluster_id held at loop exit, so no entity keeps the
\* sentinel -1.
C11_RepairCoversEveryLeftover ==
    [][(pc = "assign_done" /\ pc' = "assert") =>
          \A s \in Range0(UniqueSamples) :
              /\ clusters_per_sample[s] = Unassigned =>
                    clusters_per_sample'[s] = cluster_id
              /\ clusters_per_sample'[s] # Unassigned]_vars

\* the members of cluster c
Members(c) == {s \in Range0(UniqueSamples) : clusters_per_sample[s] = c}

\* C12: with the entity itself at rank 0 of every ranking, after
\* assign_cluster_ids every cluster with id < floor(n / group_size) has exactly
\* group_size members, the trailing cluster floor(n / group_size) has exactly
\* n mod group_size members (so it exists only when that is not 0), no other
\* id is in use, and no cluster has more than group_size members.
C12_FixedSizeExceptLast ==
    (Assigned /\ rank0_is_self) =>
        LET n == UniqueSamples
            full == n \div group_size
        IN  /\ \A c \in Range0(full) : Cardinality(Members(c)) = group_size
            /\ Cardinality(Members(full)) = n % group_size
            /\ \A s \in Range0(n) : clusters_per_sample[s] \in 0 .. full
            /\ \A c \in 0 .. full : Cardinality(Members(c)) <= group_size

\* 5 entities in groups of 2, entity 0 chained to 1 and entity 2 to 3: clusters
\* {0, 1}, {2, 3} and, from the edge-case pass, {4}
C12_Witness ==
    /\ Assigned
    /\ rank0_is_self
    /\ UniqueSamples = 5
    /\ group_size = 2
    /\ Members(0) = {0, 1}
    /\ Members(1) = {2, 3}
    /\ Members(2) = {4}

====
